---- MODULE Spec2Model ----
(***************************************************************************)
(* Client-side authentication session of Echo: the zustand store           *)
(* useAuthStore (login, signup, logout, refreshTokens, checkAuth,          *)
(* handleOAuthCallback, setUser, setTokens), its persisted entry           *)
(* 'echo-auth-storage', a page reload, the OAuth callback page, the        *)
(* repository API client and authApi's translation of failures.            *)
(*                                                                         *)
(* JavaScript runs each handler to its next await without interruption,    *)
(* so one action is one such synchronous segment: the call of an           *)
(* operation up to its first await, or the resumption of a suspended       *)
(* operation with the response of its network call up to the next await    *)
(* or its end.  The remote auth service is the environment: every          *)
(* response is an input chosen with \E.                                    *)
(***************************************************************************)
EXTENDS Integers, Sequences, FiniteSets, Bags

\* ---------------------------------------------------------------- bounds
MaxUsers == 2       \* identities the remote service knows
MaxTokens == 2      \* distinct bearer strings the remote service issues
MaxInFlight == 2    \* operations suspended at an await at the same time

Null == 0
Users == 1..MaxUsers
Tokens == 1..MaxTokens
UserOrNull == Users \cup {Null}
TokenOrNull == Tokens \cup {Null}

\* ----------------------------------------------------------------- state
VARIABLES
    session,     \* the store's AuthState
    persisted,   \* the localStorage entry 'echo-auth-storage': its JSON text
    inflight,    \* bag of operations suspended at an await
    changed,     \* the session fields the last segment left with another value
    published,   \* the states the last segment's set() calls produced, in order
    requests,    \* the network calls the last segment issued, in order
    response,    \* the network response the last segment resumed with
    completed,   \* the operation the last segment finished, if any
    page,        \* the OAuth callback page: its query, error state, route and await
    call,        \* the last call of authApi: its reply and what it gave its caller
    tabs,        \* the storage events queued for this tab, and the other tab
    guard,       \* what ProtectedRoute rendered and did for the states it saw
    backend      \* the tokens the backend accepts and has exchanged

store == <<session, persisted, inflight, changed, published, requests, response, completed>>
vars == <<session, persisted, inflight, changed, published, requests, response, completed,
          page, call, tabs, guard, backend>>

\* ------------------------------------------------------------- the store
InitialState ==
    [user |-> Null, accessToken |-> Null, refreshToken |-> Null,
     isLoading |-> TRUE, isAuthenticated |-> FALSE]

\* zustand set(partial): the fields of the partial replace those of the state
Set(s, partial) ==
    [user            |-> IF "user" \in DOMAIN partial THEN partial.user ELSE s.user,
     accessToken     |-> IF "accessToken" \in DOMAIN partial
                         THEN partial.accessToken ELSE s.accessToken,
     refreshToken    |-> IF "refreshToken" \in DOMAIN partial
                         THEN partial.refreshToken ELSE s.refreshToken,
     isLoading       |-> IF "isLoading" \in DOMAIN partial
                         THEN partial.isLoading ELSE s.isLoading,
     isAuthenticated |-> IF "isAuthenticated" \in DOMAIN partial
                         THEN partial.isAuthenticated ELSE s.isAuthenticated]

\* the states a sequence of set() calls produces from s, in order
RECURSIVE SetAll(_, _)
SetAll(s, partials) ==
    IF partials = <<>> THEN <<>>
    ELSE LET s1 == Set(s, Head(partials))
         IN  <<s1>> \o SetAll(s1, Tail(partials))

Fields == {"user", "accessToken", "refreshToken", "isLoading", "isAuthenticated"}

\* the fields in which state t differs from state s
Changed(s, t) == {f \in Fields : s[f] # t[f]}

\* persist's partialize: the part of the state written to storage
Partialize(s) ==
    [accessToken |-> s.accessToken, refreshToken |-> s.refreshToken, user |-> s.user]

\* persist's hydration at load: the stored fields over the initial state
Hydrate(entry) ==
    [user |-> entry.user, accessToken |-> entry.accessToken,
     refreshToken |-> entry.refreshToken,
     isLoading |-> InitialState.isLoading,
     isAuthenticated |-> InitialState.isAuthenticated]

\* ---- the stored entry: JSON text, modelled as the list of its members
\* localStorage holds no entry under the name
NoEntry == <<>>

\* JSON.stringify of what persist stores: {"state": {...}, "version": 0}
StringifyWithoutUser(entry) ==
    << <<"state", << <<"accessToken", entry.accessToken>>,
                     <<"refreshToken", entry.refreshToken>> >> >>,
       <<"version", 0>> >>

Stringify(entry) ==
    << <<"state", << <<"accessToken", entry.accessToken>>,
                     <<"refreshToken", entry.refreshToken>>,
                     <<"user", entry.user>> >> >>,
       <<"version", 0>> >>

\* whether a parsed JSON object has a member key
Has(object, key) == \E i \in 1..Len(object) : object[i][1] = key

\* the value of member key of a parsed JSON object, Null when it has none
Member(object, key) ==
    IF Has(object, key)
    THEN object[CHOOSE i \in 1..Len(object) : object[i][1] = key][2]
    ELSE Null

\* the names of the members of a parsed JSON object
Keys(object) == {object[i][1] : i \in 1..Len(object)}

\* JSON.parse of the entry's text and its .state
Parse(text) ==
    LET state == Member(text, "state")
    IN  [accessToken |-> Member(state, "accessToken"),
         refreshToken |-> Member(state, "refreshToken"),
         user |-> Member(state, "user")]

\* JSON.parse(localStorage.getItem(name) || '{}')?.state?.accessToken
StoredTokenTopLevel(text) == Member(text, "accessToken")

StoredToken(text) ==
    LET parsed == IF text = NoEntry THEN <<>> ELSE text
    IN  IF Has(parsed, "state") THEN Member(Member(parsed, "state"), "accessToken")
        ELSE Null

\* the store at creation: the initial state, with the stored fields if an
\* entry exists
Rehydrate(text) == IF text = NoEntry THEN InitialState ELSE Hydrate(Parse(text))

\* the partial both logout and checkAuth's last resort write
Cleared ==
    [user |-> Null, accessToken |-> Null, refreshToken |-> Null,
     isAuthenticated |-> FALSE, isLoading |-> FALSE]

\* ------------------------------------------------- segments' bookkeeping
NoResponse == [kind |-> "none", user |-> Null, access_token |-> Null, refresh_token |-> Null]
ErrorResponse == [kind |-> "error", user |-> Null, access_token |-> Null, refresh_token |-> Null]
OkResponse(u, a, r) == [kind |-> "ok", user |-> u, access_token |-> a, refresh_token |-> r]

\* a suspended operation: its name, the await it is at, the token its pending
\* request carries, and its locals: handleOAuthCallback's two arguments (at,
\* rt), the access token checkAuth read when it was called (at)
Suspended(op, pc, tok, a, r) == [op |-> op, pc |-> pc, tok |-> tok, at |-> a, rt |-> r]

\* an operation that ran from its call to its end without an await
Unsuspended == Suspended("none", "none", Null, Null, Null)

\* what a segment finished: the operation, whether its promise resolved or
\* rejected, the value it resolved with, the branch it ended on, and the
\* locals of the suspended operation c it resumed
NoneCompleted == [op |-> "none", outcome |-> "none", ret |-> "none", path |-> "none",
                  tok |-> Null, at |-> Null, rt |-> Null]
Completed(op, outcome, ret, path, c) ==
    [op |-> op, outcome |-> outcome, ret |-> ret, path |-> path,
     tok |-> c.tok, at |-> c.at, rt |-> c.rt]

Request(api, tok) == [api |-> api, tok |-> tok]

Waiting(op, pc) == {c \in BagToSet(inflight) : c.op = op /\ c.pc = pc}

\* A segment: the set() calls it makes, the requests it issues, the response
\* it resumed with, the suspended operation it consumed (remove) and leaves
\* (add), and what it completed.  Every set() is followed by persist's write.
Segment(partials, reqs, resp, remove, add, done) ==
    LET states == SetAll(session, partials)
        last == IF states = <<>> THEN session ELSE states[Len(states)]
    IN  /\ published' = states
        /\ session' = last
        /\ changed' = Changed(session, last)
        /\ persisted' = IF states = <<>> THEN persisted ELSE Stringify(Partialize(last))
        /\ requests' = reqs
        /\ response' = resp
        /\ inflight' = (inflight (-) remove) (+) add
        /\ completed' = done

One(c) == SetToBag({c})

\* ---- authApi: what a call gives its caller for the reply it gets
\* a reply is a response with a status and a body, or none at all: the body
\* is a JSON object (detail is <<>> when it has no such member, <<d>> when it
\* has one) or text that is not JSON; kind "transport" is fetch rejecting
JsonReply(status, detail) ==
    [kind |-> "json", status |-> status, detail |-> detail, reason |-> ""]
TextReply(status) ==
    [kind |-> "text", status |-> status, detail |-> <<>>, reason |-> ""]
TransportFailure(reason) ==
    [kind |-> "transport", status |-> 0, detail |-> <<>>, reason |-> reason]

Details == {<<>>, <<"">>, <<"Invalid credentials">>, <<"Email already registered">>}
FailureReplies ==
    {JsonReply(st, d) : st \in {400, 401, 500}, d \in Details}
      \cup {TextReply(st) : st \in {400, 401, 500}}
      \cup {TransportFailure("Failed to fetch")}
\* a response that is ok whose body is not JSON
UnreadableReplies == {TextReply(200)}
Replies == {JsonReply(200, <<>>)} \cup UnreadableReplies \cup FailureReplies

\* response.ok
Ok(reply) == reply.status \in 200..299

\* the message each call falls back on
Fallback(op) ==
    CASE op = "signup" -> "Signup failed"
      [] op = "login" -> "Login failed"
      [] op = "logout" -> "Logout failed"
      [] op = "getMe" -> "Failed to fetch user"
      [] op = "refreshToken" -> "Token refresh failed"

Returned == [outcome |-> "returned", name |-> "", message |-> ""]
Thrown(name, message) == [outcome |-> "thrown", name |-> name, message |-> message]

\* await fetch(...) rejects with fetch's own error; the body of a response,
\* ok or not, is read with response.json(), which rejects with a SyntaxError
\* when the body is not JSON; a response that is ok returns what was read,
\* one that is not throws new Error(error.detail || fallback)
Translate(op, reply) ==
    IF reply.kind = "transport" THEN Thrown("TypeError", reply.reason)
    ELSE IF reply.kind = "text" THEN Thrown("SyntaxError", "Unexpected token in JSON")
    ELSE IF Ok(reply) THEN Returned
    ELSE IF reply.detail # <<>> /\ reply.detail[1] # ""
         THEN Thrown("Error", reply.detail[1])
         ELSE Thrown("Error", Fallback(op))

NoCall == [op |-> "none", reply |-> JsonReply(200, <<>>), result |-> Returned]

\* ---- the OAuth callback page's own state
\* a query parameter is <<>> when the query lacks it (searchParams.get gives
\* null) and <<v>> when it has the value v; the empty text, which is no
\* token, is written Null where a token is expected
Queries ==
    [error : {<<>>, <<"">>, <<"access_denied">>},
     error_description : {<<>>, <<"">>, <<"User denied">>},
     access_token : {<<>>} \cup {<<t>> : t \in TokenOrNull},
     refresh_token : {<<>>} \cup {<<t>> : t \in TokenOrNull}]

\* if (param), !param on what searchParams.get gave
TruthyText(param) == param # <<>> /\ param[1] # ""
TruthyToken(param) == param # <<>> /\ param[1] # Null

NoQuery == [error |-> <<>>, error_description |-> <<>>,
            access_token |-> <<>>, refresh_token |-> <<>>]
\* the page is not mounted
NoPage == [stage |-> "none", error |-> <<>>, route |-> "none", query |-> NoQuery,
           settled |-> "no"]
\* the page mounted at /auth/callback, with its error state; settled tells
\* how the promise processCallback awaits has settled ("resolved",
\* "rejected") while the continuation of processCallback has yet to run
Page(stage, error, route, query) ==
    [stage |-> stage, error |-> error, route |-> route, query |-> query,
     settled |-> "no"]

\* ---- tabs sharing localStorage
\* the key of the store's entry
Name == "echo-auth-storage"
\* a key of localStorage that is not the store's: the application writes no
\* such key, a storage event for one comes from another script of the origin
OtherKey == "other-key"

\* a tab besides the one the other variables describe: its store, its
\* suspended operations, the storage events queued for it and whether it is
\* at its startup (reloaded; "running" once its first checkAuth was called),
\* and whether its listener has called window.location.reload() while the
\* page it runs in is still the old one
Tab(s, suspended, events, startup, reloading) ==
    [session |-> s, inflight |-> suspended, events |-> events, startup |-> startup,
     reloading |-> reloading]

\* this tab's queued storage events, its startup and its pending reload, with
\* the other tab
Tabs(focus, events, startup, reloading, other) ==
    [focus |-> focus, events |-> events, startup |-> startup,
     reloading |-> reloading, other |-> other]

\* a single tab: the other one never acts
OneTab == Tabs(1, {}, "no", FALSE, Tab(InitialState, EmptyBag, {}, "no", FALSE))
\* two tabs opened on the same entry
TwoTabs == Tabs(1, {}, "fresh", FALSE, Tab(InitialState, EmptyBag, {}, "fresh", FALSE))

\* ---- the backend's tokens
\* the access tokens the backend accepts, those it holds expired, and the
\* refresh tokens it has exchanged already; by default it is left unconstrained
Backend(valid, expired, used) == [valid |-> valid, expired |-> expired, used |-> used]
NoBackend == Backend({}, {}, {})

\* ---- ProtectedRoute
\* pages wrapped in ProtectedRoute
Pathnames == {"/repositories", "/dashboard"}

\* the two fields ProtectedRoute takes from the store when it renders
Seen(s) == [isLoading |-> s.isLoading, isAuthenticated |-> s.isAuthenticated]

\* no ProtectedRoute is mounted; sessionStorage holds no 'redirectAfterLogin'
NoGuard ==
    [mounted |-> FALSE, pathname |-> "", rendered |-> "none",
     seen |-> Seen(InitialState), effects |-> "none",
     redirectAfterLogin |-> "", pushed |-> ""]

\* ProtectedRoute mounted on a page, before its first render
Mounted(g, pathname) ==
    [mounted |-> TRUE, pathname |-> pathname, rendered |-> "none",
     seen |-> Seen(InitialState), effects |-> "none",
     redirectAfterLogin |-> g.redirectAfterLogin, pushed |-> ""]

\* the page is left: sessionStorage keeps its item
Unmounted(g) == [NoGuard EXCEPT !.redirectAfterLogin = g.redirectAfterLogin]

\* variant of Render: the authentication flag is looked at first
RenderAuthenticatedFirst(s) ==
    IF s.isAuthenticated THEN "children"
    ELSE IF s.isLoading THEN "fallback"
    ELSE "null"

\* what ProtectedRoute returns for the state it reads
Render(s) ==
    IF s.isLoading THEN "fallback"
    ELSE IF ~s.isAuthenticated THEN "null"
    ELSE "children"

\* the condition of ProtectedRoute's second effect
Redirects(s) == ~s.isLoading /\ ~s.isAuthenticated

\* a render of ProtectedRoute with state s: what it returns, and the values
\* its effects close over
Rendered(g, s) == [g EXCEPT !.rendered = Render(s), !.seen = Seen(s)]

\* ProtectedRoute's second effect, run with the values of the last render
SecondEffect(g) ==
    [g EXCEPT !.redirectAfterLogin = IF Redirects(g.seen) THEN g.pathname ELSE @,
              !.pushed = IF Redirects(g.seen) THEN "/auth/login" ELSE @]

\* a render of ProtectedRoute with state s followed by its second effect
Observe(g, s) ==
    IF ~g.mounted THEN g ELSE SecondEffect(Rendered(g, s))

Init ==
    /\ session = InitialState
    /\ persisted \in {NoEntry, Stringify(Partialize(InitialState))}
    /\ inflight = EmptyBag
    /\ changed = {}
    /\ published = <<>>
    /\ requests = <<>>
    /\ response = NoResponse
    /\ completed = NoneCompleted
    /\ page = NoPage
    /\ call = NoCall
    /\ tabs = OneTab
    /\ guard = NoGuard
    /\ backend = NoBackend

\* ----------------------------------------------------------------- login
LoginCall ==
    Segment(<<[isLoading |-> TRUE]>>, <<Request("login", Null)>>, NoResponse,
            EmptyBag, One(Suspended("login", "await", Null, Null, Null)),
            NoneCompleted)

\* variant of LoginSuccessPartials: the tokens and the identity are written by
\* two set() calls instead of one
LoginSuccessPartialsSplit(resp) ==
    <<[accessToken |-> resp.access_token, refreshToken |-> resp.refresh_token],
      [user |-> resp.user, isAuthenticated |-> TRUE, isLoading |-> FALSE]>>

LoginSuccessPartials(resp) ==
    <<[user |-> resp.user, accessToken |-> resp.access_token,
       refreshToken |-> resp.refresh_token,
       isAuthenticated |-> TRUE, isLoading |-> FALSE]>>

\* variant of LoginFailurePartials: a failed login signs the user out
LoginFailurePartialsClearing == <<Cleared>>

LoginFailurePartials == <<[isLoading |-> FALSE]>>

LoginOk(u, a, r) ==
    \E c \in Waiting("login", "await") :
        Segment(LoginSuccessPartials(OkResponse(u, a, r)), <<>>, OkResponse(u, a, r),
                One(c), EmptyBag,
                Completed("login", "resolved", "void", "await", c))

LoginFail ==
    \E c \in Waiting("login", "await") :
        Segment(LoginFailurePartials, <<>>, ErrorResponse, One(c), EmptyBag,
                Completed("login", "rejected", "none", "await", c))

\* ---------------------------------------------------------------- signup
SignupCall ==
    Segment(<<[isLoading |-> TRUE]>>, <<Request("signup", Null)>>, NoResponse,
            EmptyBag, One(Suspended("signup", "await", Null, Null, Null)),
            NoneCompleted)

SignupSuccessPartials(resp) ==
    <<[user |-> resp.user, accessToken |-> resp.access_token,
       refreshToken |-> resp.refresh_token,
       isAuthenticated |-> TRUE, isLoading |-> FALSE]>>

\* variant of SignupFailurePartials: the catch block of handleOAuthCallback
SignupFailurePartialsUnauthenticating ==
    <<[isLoading |-> FALSE, isAuthenticated |-> FALSE]>>

SignupFailurePartials == <<[isLoading |-> FALSE]>>

SignupOk(u, a, r) ==
    \E c \in Waiting("signup", "await") :
        Segment(SignupSuccessPartials(OkResponse(u, a, r)), <<>>, OkResponse(u, a, r),
                One(c), EmptyBag,
                Completed("signup", "resolved", "void", "await", c))

SignupFail ==
    \E c \in Waiting("signup", "await") :
        Segment(SignupFailurePartials, <<>>, ErrorResponse, One(c), EmptyBag,
                Completed("signup", "rejected", "none", "await", c))

\* ---------------------------------------------------------------- logout
\* variant of LogoutPartials: logout forgets the user but keeps the tokens
LogoutPartialsKeepingTokens ==
    <<[user |-> Null, isAuthenticated |-> FALSE, isLoading |-> FALSE]>>

LogoutPartials == <<Cleared>>

LogoutCall ==
    LET accessToken == session.accessToken
    IN  IF accessToken # Null
        THEN Segment(<<[isLoading |-> TRUE]>>, <<Request("logout", accessToken)>>,
                     NoResponse, EmptyBag,
                     One(Suspended("logout", "await", accessToken, Null, Null)),
                     NoneCompleted)
        ELSE Segment(<<[isLoading |-> TRUE]>> \o LogoutPartials, <<>>, NoResponse,
                     EmptyBag, EmptyBag,
                     Completed("logout", "resolved", "void", "notoken", Unsuspended))

\* variant of LogoutDone: the error of the remote logout is thrown again
LogoutDoneRethrowing(ok) ==
    \E c \in Waiting("logout", "await") :
        Segment(LogoutPartials, <<>>,
                IF ok THEN OkResponse(Null, Null, Null) ELSE ErrorResponse,
                One(c), EmptyBag,
                Completed("logout", IF ok THEN "resolved" ELSE "rejected", "void",
                          IF ok THEN "acked" ELSE "failed", c))

\* the remote logout answered (ok) or failed (not ok): the finally block runs
LogoutDone(ok) ==
    \E c \in Waiting("logout", "await") :
        Segment(LogoutPartials, <<>>,
                IF ok THEN OkResponse(Null, Null, Null) ELSE ErrorResponse,
                One(c), EmptyBag,
                Completed("logout", "resolved", "void",
                          IF ok THEN "acked" ELSE "failed", c))

\* --------------------------------------------------------- refreshTokens
RefreshSuccessPartials(resp) ==
    <<[accessToken |-> resp.access_token, refreshToken |-> resp.refresh_token]>>

\* variant of RefreshFailurePartials: a failed refresh also ends the loading state
RefreshFailurePartialsNotLoading == <<Cleared>>

\* variant of RefreshFailurePartials: the refresh token is left in place
RefreshFailurePartialsAccessOnly ==
    <<[user |-> Null, accessToken |-> Null, isAuthenticated |-> FALSE]>>

RefreshFailurePartials ==
    <<[user |-> Null, accessToken |-> Null, refreshToken |-> Null,
       isAuthenticated |-> FALSE]>>

\* variant of RefreshCall: the guard on a missing refresh token is dropped
RefreshCallUnguarded ==
    Segment(<<>>, <<Request("refresh", session.refreshToken)>>, NoResponse, EmptyBag,
            One(Suspended("refreshTokens", "await", session.refreshToken, Null, Null)),
            NoneCompleted)

RefreshCall ==
    LET refreshToken == session.refreshToken
    IN  IF refreshToken = Null
        THEN Segment(<<>>, <<>>, NoResponse, EmptyBag, EmptyBag,
                     Completed("refreshTokens", "resolved", "false", "notoken", Unsuspended))
        ELSE Segment(<<>>, <<Request("refresh", refreshToken)>>, NoResponse, EmptyBag,
                     One(Suspended("refreshTokens", "await", refreshToken, Null, Null)),
                     NoneCompleted)

RefreshOk(a, r) ==
    \E c \in Waiting("refreshTokens", "await") :
        Segment(RefreshSuccessPartials(OkResponse(Null, a, r)), <<>>,
                OkResponse(Null, a, r), One(c), EmptyBag,
                Completed("refreshTokens", "resolved", "true", "await", c))

RefreshFail ==
    \E c \in Waiting("refreshTokens", "await") :
        Segment(RefreshFailurePartials, <<>>, ErrorResponse, One(c), EmptyBag,
                Completed("refreshTokens", "resolved", "false", "await", c))

\* ------------------------------------------------------------- checkAuth
\* variant of CheckAuthSuccessPartials: the successful fetch leaves isLoading alone
CheckAuthSuccessPartialsStillLoading(u) ==
    <<[user |-> u, isAuthenticated |-> TRUE]>>

CheckAuthSuccessPartials(u) ==
    <<[user |-> u, isAuthenticated |-> TRUE, isLoading |-> FALSE]>>

\* variant of CheckAuthGiveUpPartials: giving up forgets the user but keeps the tokens
CheckAuthGiveUpPartialsKeepingTokens ==
    <<[user |-> Null, isAuthenticated |-> FALSE, isLoading |-> FALSE]>>

CheckAuthGiveUpPartials == <<Cleared>>

CheckAuthCall ==
    LET accessToken == session.accessToken
    IN  IF accessToken = Null
        THEN Segment(<<[isLoading |-> TRUE], [isLoading |-> FALSE]>>, <<>>, NoResponse,
                     EmptyBag, EmptyBag,
                     Completed("checkAuth", "resolved", "void", "notoken", Unsuspended))
        ELSE Segment(<<[isLoading |-> TRUE]>>, <<Request("getMe", accessToken)>>,
                     NoResponse, EmptyBag,
                     One(Suspended("checkAuth", "me1", accessToken, accessToken, Null)),
                     NoneCompleted)

\* the first current-user fetch succeeded
CheckAuthMeOk(u) ==
    \E c \in Waiting("checkAuth", "me1") :
        Segment(CheckAuthSuccessPartials(u), <<>>, OkResponse(u, Null, Null),
                One(c), EmptyBag,
                Completed("checkAuth", "resolved", "void", "valid", c))

\* the first current-user fetch failed: the catch block calls refreshTokens(),
\* which runs to its own first await (or returns false at once) and leaves
\* checkAuth awaiting its result
CheckAuthMeFail ==
    \E c \in Waiting("checkAuth", "me1") :
        LET refreshToken == session.refreshToken
        IN  IF refreshToken = Null
            THEN Segment(<<>>, <<>>, ErrorResponse, One(c),
                         One(Suspended("checkAuth", "norefresh", Null, c.at, Null)),
                         NoneCompleted)
            ELSE Segment(<<>>, <<Request("refresh", refreshToken)>>, ErrorResponse, One(c),
                         One(Suspended("checkAuth", "refresh", refreshToken, c.at, Null)),
                         NoneCompleted)

\* refreshTokens() inside checkAuth: the refresh succeeded, it returns true
CheckAuthRefreshOk(a, r) ==
    \E c \in Waiting("checkAuth", "refresh") :
        Segment(RefreshSuccessPartials(OkResponse(Null, a, r)), <<>>,
                OkResponse(Null, a, r), One(c),
                One(Suspended("checkAuth", "refreshed", Null, c.at, Null)),
                NoneCompleted)

\* refreshTokens() inside checkAuth: the refresh failed, it returns false
CheckAuthRefreshFail ==
    \E c \in Waiting("checkAuth", "refresh") :
        Segment(RefreshFailurePartials, <<>>, ErrorResponse, One(c),
                One(Suspended("checkAuth", "refreshfail", Null, c.at, Null)),
                NoneCompleted)

\* variant of CheckAuthRetry: the retry carries the access token checkAuth read
\* when it was called instead of the one now stored
CheckAuthRetryStale ==
    \E c \in Waiting("checkAuth", "refreshed") :
        Segment(<<>>, <<Request("getMe", c.at)>>, NoResponse, One(c),
                One(Suspended("checkAuth", "me2", c.at, c.at, Null)),
                NoneCompleted)

\* checkAuth resumes with refreshed = true: it reads the stored access token
\* and fetches the current user once more
CheckAuthRetry ==
    \E c \in Waiting("checkAuth", "refreshed") :
        LET newToken == session.accessToken
        IN  IF newToken # Null
            THEN Segment(<<>>, <<Request("getMe", newToken)>>, NoResponse, One(c),
                         One(Suspended("checkAuth", "me2", newToken, c.at, Null)),
                         NoneCompleted)
            ELSE Segment(CheckAuthGiveUpPartials, <<>>, NoResponse, One(c), EmptyBag,
                         Completed("checkAuth", "resolved", "void", "lost", c))

CheckAuthRetryOk(u) ==
    \E c \in Waiting("checkAuth", "me2") :
        Segment(CheckAuthSuccessPartials(u), <<>>, OkResponse(u, Null, Null),
                One(c), EmptyBag,
                Completed("checkAuth", "resolved", "void", "retried", c))

\* variant of CheckAuthRetryFail: after a failed retry checkAuth refreshes again
CheckAuthRetryFailRefreshingAgain ==
    \E c \in Waiting("checkAuth", "me2") :
        IF session.refreshToken # Null
        THEN Segment(<<>>, <<Request("refresh", session.refreshToken)>>, ErrorResponse,
                     One(c),
                     One(Suspended("checkAuth", "refresh", session.refreshToken, c.at, Null)),
                     NoneCompleted)
        ELSE Segment(CheckAuthGiveUpPartials, <<>>, ErrorResponse, One(c), EmptyBag,
                     Completed("checkAuth", "resolved", "void", "retryfailed", c))

CheckAuthRetryFail ==
    \E c \in Waiting("checkAuth", "me2") :
        Segment(CheckAuthGiveUpPartials, <<>>, ErrorResponse, One(c), EmptyBag,
                Completed("checkAuth", "resolved", "void", "retryfailed", c))

\* checkAuth resumes with refreshed = false
CheckAuthGiveUp ==
    \E c \in Waiting("checkAuth", "norefresh") \cup Waiting("checkAuth", "refreshfail") :
        Segment(CheckAuthGiveUpPartials, <<>>, NoResponse, One(c), EmptyBag,
                Completed("checkAuth", "resolved", "void", c.pc, c))

\* --------------------------------------------------- handleOAuthCallback
\* variant of OAuthStorePartials: the two tokens are stored in each other's place
OAuthStorePartialsSwapped(accessToken, refreshToken) ==
    <<[accessToken |-> refreshToken, refreshToken |-> accessToken]>>

OAuthStorePartials(accessToken, refreshToken) ==
    <<[accessToken |-> accessToken, refreshToken |-> refreshToken]>>

OAuthSuccessPartials(u) ==
    <<[user |-> u, isAuthenticated |-> TRUE, isLoading |-> FALSE]>>

\* variant of OAuthFailurePartials: a failed identity fetch clears the session,
\* as checkAuth does
OAuthFailurePartialsClearing == <<Cleared>>
OAuthFailurePartialsAuthenticating == <<[isLoading |-> FALSE, isAuthenticated |-> TRUE]>>

OAuthFailurePartials == <<[isLoading |-> FALSE, isAuthenticated |-> FALSE]>>

HandleOAuthCallbackCall(accessToken, refreshToken) ==
    Segment(<<[isLoading |-> TRUE]>> \o OAuthStorePartials(accessToken, refreshToken),
            <<Request("getMe", accessToken)>>, NoResponse, EmptyBag,
            One(Suspended("handleOAuthCallback", "me", accessToken,
                          accessToken, refreshToken)),
            NoneCompleted)

HandleOAuthCallbackOk(u) ==
    \E c \in Waiting("handleOAuthCallback", "me") :
        Segment(OAuthSuccessPartials(u), <<>>, OkResponse(u, Null, Null),
                One(c), EmptyBag,
                Completed("handleOAuthCallback", "resolved", "void", "me", c))

HandleOAuthCallbackFail ==
    \E c \in Waiting("handleOAuthCallback", "me") :
        Segment(OAuthFailurePartials, <<>>, ErrorResponse, One(c), EmptyBag,
                Completed("handleOAuthCallback", "rejected", "none", "me", c))

\* ------------------------------------------------------ setUser, setTokens
SetUser(user) ==
    Segment(<<[user |-> user, isAuthenticated |-> user # Null, isLoading |-> FALSE]>>,
            <<>>, NoResponse, EmptyBag, EmptyBag,
            Completed("setUser", "resolved", "void", "sync", Unsuspended))

SetTokens(accessToken, refreshToken) ==
    Segment(<<[accessToken |-> accessToken, refreshToken |-> refreshToken]>>,
            <<>>, NoResponse, EmptyBag, EmptyBag,
            Completed("setTokens", "resolved", "void", "sync", Unsuspended))

\* ---------------------------------------------------------------- reload
\* window.location.reload(): the page's suspended operations are gone and
\* the store is created again from its initial state and the stored entry
\* (persist may write the entry back after hydration; the text it writes is
\* that of the fields it has just read)
Reload ==
    /\ changed' = Changed(session, Rehydrate(persisted))
    /\ session' = Rehydrate(persisted)
    /\ published' = <<>>
    /\ requests' = <<>>
    /\ response' = NoResponse
    /\ inflight' = EmptyBag
    /\ completed' = NoneCompleted
    /\ persisted' \in {persisted, Stringify(Partialize(Rehydrate(persisted)))}

\* ------------------------------------------------------------- authApi
\* one call of authApi with the reply the network gives it
AuthApiCall(op, reply) ==
    call' = [op |-> op, reply |-> reply, result |-> Translate(op, reply)]

\* ------------------------------------------------- the OAuth callback page
\* which way processCallback goes for the query the page was opened with
CallbackBranchTokensFirst(query) ==
    IF ~TruthyToken(query.access_token) \/ ~TruthyToken(query.refresh_token)
    THEN "missing"
    ELSE IF TruthyText(query.error) THEN "error" ELSE "exchange"

CallbackBranch(query) ==
    IF TruthyText(query.error) THEN "error"
    ELSE IF ~TruthyToken(query.access_token) \/ ~TruthyToken(query.refresh_token)
         THEN "missing"
         ELSE "exchange"

\* searchParams.get('error_description') || 'Authentication failed'
ErrorDescription(query) ==
    IF TruthyText(query.error_description) THEN query.error_description[1]
    ELSE "Authentication failed"

\* processCallback returning before it calls the store
CallbackRefused(query, message, path) ==
    /\ page' = Page("failed", <<message>>, "/auth/callback", query)
    /\ Segment(<<>>, <<>>, NoResponse, EmptyBag, EmptyBag,
               Completed("processCallback", "resolved", "void", path, Unsuspended))

\* the page mounts with its query and its effect runs processCallback up to
\* its return or its await
ProcessCallback(query) ==
    CASE CallbackBranch(query) = "error" ->
             CallbackRefused(query, ErrorDescription(query), "error")
      [] CallbackBranch(query) = "missing" ->
             CallbackRefused(query, "Missing authentication tokens", "missing")
      [] CallbackBranch(query) = "exchange" ->
             /\ page' = Page("awaiting", <<>>, "/auth/callback", query)
             /\ HandleOAuthCallbackCall(query.access_token[1], query.refresh_token[1])

\* no continuation of processCallback is queued as a microtask: the next
\* segment is that of a new task
TaskBoundary == page.settled = "no"

\* the page shows its spinner while processCallback is suspended: it has no
\* control, link or effect that calls the store or the repository API
Awaiting == page.stage = "awaiting"

\* the handleOAuthCallback the page awaits resolves: the store is set and the
\* continuation of processCallback is queued
HandleOAuthCallbackResolved(u) ==
    /\ page.stage = "awaiting"
    /\ TaskBoundary
    /\ HandleOAuthCallbackOk(u)
    /\ page' = [page EXCEPT !.settled = "resolved"]

\* the handleOAuthCallback the page awaits rejects with what authApi.getMe
\* threw for the reply: the store is set, the error is thrown again and the
\* continuation of processCallback is queued
HandleOAuthCallbackRejected(reply) ==
    /\ page.stage = "awaiting"
    /\ TaskBoundary
    /\ Translate("getMe", reply).outcome = "thrown"
    /\ HandleOAuthCallbackFail
    /\ AuthApiCall("getMe", reply)
    /\ page' = [page EXCEPT !.settled = "rejected"]

\* processCallback goes on after its await: router.push('/dashboard')
ProcessCallbackResolved ==
    /\ page.settled = "resolved"
    /\ page' = [page EXCEPT !.stage = "navigated", !.route = "/dashboard",
                            !.settled = "no"]
    /\ Segment(<<>>, <<>>, NoResponse, EmptyBag, EmptyBag,
               Completed("processCallback", "resolved", "void", "exchange", Unsuspended))

\* processCallback goes on in its catch: setError(err.message), the message
\* of what handleOAuthCallback threw
ProcessCallbackRejected ==
    /\ page.settled = "rejected"
    /\ page' = [page EXCEPT !.stage = "failed", !.error = <<call.result.message>>,
                            !.settled = "no"]
    /\ Segment(<<>>, <<>>, NoResponse, EmptyBag, EmptyBag,
               Completed("processCallback", "resolved", "void", "catch", Unsuspended))

\* ------------------------------------------------- the repository API
RepositoryCalls ==
    {"list", "add", "get", "update", "delete", "sync", "getBranches", "getWebhooks"}

\* what fetchWithAuth gives its caller: the body of a response that is not
\* ok counts as {detail: 'Request failed'} when it cannot be read as JSON;
\* the body of a response that is ok is read with response.json() as it is
FetchWithAuthResult(reply) ==
    IF reply.kind = "transport" THEN Thrown("TypeError", reply.reason)
    ELSE IF Ok(reply)
         THEN IF reply.kind = "text"
              THEN Thrown("SyntaxError", "Unexpected token in JSON")
              ELSE Returned
    ELSE IF reply.kind = "json" /\ reply.detail # <<>> /\ reply.detail[1] # ""
         THEN Thrown("Error", reply.detail[1])
         ELSE Thrown("Error", "Request failed")

\* the replies drawn for a repository call: fetchWithAuth looks at
\* response.ok and at the body only, so 401 stands for every status that is
\* not ok
RepositoryReplies == {reply \in Replies : reply.status \in {0, 200, 401}}

\* fetchWithAuth up to its await: the token is read from the stored entry
\* and sent as 'Authorization: Bearer <token>' when there is one (a request
\* with tok = Null carries no Authorization header)
FetchWithAuth(api) ==
    LET token == StoredToken(persisted)
    IN  /\ Segment(<<>>, <<Request(api, token)>>, NoResponse, EmptyBag,
                   One(Suspended(api, "fetch", token, Null, Null)), NoneCompleted)
        /\ page' = NoPage
        /\ call' = NoCall
        /\ UNCHANGED <<tabs, guard, backend>>

\* the response is ok and its body is read: return response.json()
FetchWithAuthResolved ==
    \E c \in BagToSet(inflight) :
        /\ c.op \in RepositoryCalls
        /\ Segment(<<>>, <<>>, OkResponse(Null, Null, Null), One(c), EmptyBag,
                   Completed(c.op, "resolved", "json", "fetch", c))
        /\ call' = [op |-> c.op, reply |-> JsonReply(200, <<>>), result |-> Returned]
        /\ UNCHANGED <<page, tabs, guard, backend>>

\* the response is not ok, its body cannot be read, or there is none: throw
FetchWithAuthRejected(reply) ==
    \E c \in BagToSet(inflight) :
        /\ c.op \in RepositoryCalls
        /\ FetchWithAuthResult(reply).outcome = "thrown"
        /\ Segment(<<>>, <<>>, ErrorResponse, One(c), EmptyBag,
                   Completed(c.op, "rejected", "none", "fetch", c))
        /\ call' = [op |-> c.op, reply |-> reply, result |-> FetchWithAuthResult(reply)]
        /\ UNCHANGED <<page, tabs, guard, backend>>

RepositoriesList == FetchWithAuth("list")
RepositoriesAdd == FetchWithAuth("add")
RepositoriesGet == FetchWithAuth("get")
RepositoriesUpdate == FetchWithAuth("update")
RepositoriesDelete == FetchWithAuth("delete")
RepositoriesSync == FetchWithAuth("sync")
RepositoriesGetBranches == FetchWithAuth("getBranches")
RepositoriesGetWebhooks == FetchWithAuth("getWebhooks")

\* loadRepository of the repository page up to its await: Promise.all over
\* repositoriesApi.get and repositoriesApi.getBranches, both run up to their
\* own await fetch(...) in this segment
LoadRepository ==
    LET token == StoredToken(persisted)
    IN  /\ Segment(<<>>, <<Request("get", token), Request("getBranches", token)>>,
                   NoResponse, EmptyBag,
                   One(Suspended("get", "fetch", token, Null, Null))
                     (+) One(Suspended("getBranches", "fetch", token, Null, Null)),
                   NoneCompleted)
        /\ page' = NoPage
        /\ call' = NoCall
        /\ UNCHANGED <<tabs, guard, backend>>

\* --------------------------------------------------------- specifications
\* every value of the state is one the store's types allow
TypeOK ==
    /\ session \in [user : UserOrNull, accessToken : TokenOrNull,
                    refreshToken : TokenOrNull, isLoading : BOOLEAN,
                    isAuthenticated : BOOLEAN]
    /\ \/ persisted = NoEntry
       \/ Parse(persisted) \in [accessToken : TokenOrNull, refreshToken : TokenOrNull,
                                user : UserOrNull]
    /\ IsABag(inflight)
    /\ \A c \in BagToSet(inflight) :
           /\ c.op \in {"login", "signup", "logout", "refreshTokens", "checkAuth",
                        "handleOAuthCallback"} \cup RepositoryCalls
           /\ c.tok \in TokenOrNull /\ c.at \in TokenOrNull /\ c.rt \in TokenOrNull
    /\ changed \subseteq Fields
    /\ Len(published) <= 2
    /\ Len(requests) <= 2
    /\ response.kind \in {"none", "ok", "error"}
    /\ completed.outcome \in {"none", "resolved", "rejected"}
    /\ page.stage \in {"none", "awaiting", "failed", "navigated"}
    /\ page.query \in Queries
    /\ page.settled \in {"no", "resolved", "rejected"}
    /\ Len(page.error) <= 1
    /\ call.op \in {"none", "signup", "login", "logout", "getMe", "refreshToken"}
                    \cup RepositoryCalls
    /\ call.reply \in Replies
    /\ backend.valid \subseteq Tokens
    /\ backend.used \subseteq Tokens
    /\ backend.expired \subseteq Tokens
    /\ guard.mounted \in BOOLEAN
    /\ guard.pathname \in Pathnames \cup {""}
    /\ guard.rendered \in {"none", "fallback", "null", "children"}
    /\ guard.seen \in [isLoading : BOOLEAN, isAuthenticated : BOOLEAN]
    /\ guard.effects \in {"none", "pending", "done"}
    /\ guard.redirectAfterLogin \in Pathnames \cup {""}
    /\ guard.pushed \in {"", "/auth/login"}
    /\ tabs.focus \in {1, 2}
    /\ tabs.events \subseteq {Name}
    /\ tabs.other.events \subseteq {Name}
    /\ tabs.startup \in {"no", "fresh", "running"}
    /\ tabs.other.startup \in {"no", "fresh", "running"}
    /\ tabs.reloading \in BOOLEAN
    /\ tabs.other.reloading \in BOOLEAN
    /\ IsABag(tabs.other.inflight)

CanCall == BagCardinality(inflight) < MaxInFlight
Idle == inflight = EmptyBag

Resumes ==
    \/ \E u \in Users, a \in Tokens, r \in Tokens : LoginOk(u, a, r) /\ UNCHANGED <<page, call, tabs, guard, backend>>
    \/ LoginFail /\ UNCHANGED <<page, call, tabs, guard, backend>>
    \/ \E u \in Users, a \in Tokens, r \in Tokens : SignupOk(u, a, r) /\ UNCHANGED <<page, call, tabs, guard, backend>>
    \/ SignupFail /\ UNCHANGED <<page, call, tabs, guard, backend>>
    \/ \E ok \in BOOLEAN : LogoutDone(ok) /\ UNCHANGED <<page, call, tabs, guard, backend>>
    \/ \E a \in Tokens, r \in Tokens : RefreshOk(a, r) /\ UNCHANGED <<page, call, tabs, guard, backend>>
    \/ RefreshFail /\ UNCHANGED <<page, call, tabs, guard, backend>>
    \/ \E u \in Users : CheckAuthMeOk(u) /\ UNCHANGED <<page, call, tabs, guard, backend>>
    \/ CheckAuthMeFail /\ UNCHANGED <<page, call, tabs, guard, backend>>
    \/ \E a \in Tokens, r \in Tokens : CheckAuthRefreshOk(a, r) /\ UNCHANGED <<page, call, tabs, guard, backend>>
    \/ CheckAuthRefreshFail /\ UNCHANGED <<page, call, tabs, guard, backend>>
    \/ CheckAuthRetry /\ UNCHANGED <<page, call, tabs, guard, backend>>
    \/ \E u \in Users : CheckAuthRetryOk(u) /\ UNCHANGED <<page, call, tabs, guard, backend>>
    \/ CheckAuthRetryFail /\ UNCHANGED <<page, call, tabs, guard, backend>>
    \/ CheckAuthGiveUp /\ UNCHANGED <<page, call, tabs, guard, backend>>
    \/ \E u \in Users : HandleOAuthCallbackOk(u) /\ UNCHANGED <<page, call, tabs, guard, backend>>
    \/ HandleOAuthCallbackFail /\ UNCHANGED <<page, call, tabs, guard, backend>>

\* the application: the operations its pages and hooks invoke may overlap, a
\* call may start while others are suspended
Next ==
    \/ CanCall /\ LoginCall /\ UNCHANGED <<page, call, tabs, guard, backend>>
    \/ CanCall /\ SignupCall /\ UNCHANGED <<page, call, tabs, guard, backend>>
    \/ CanCall /\ LogoutCall /\ UNCHANGED <<page, call, tabs, guard, backend>>
    \/ CanCall /\ RefreshCall /\ UNCHANGED <<page, call, tabs, guard, backend>>
    \/ CanCall /\ CheckAuthCall /\ UNCHANGED <<page, call, tabs, guard, backend>>
    \/ CanCall /\ \E a \in Tokens, r \in Tokens : HandleOAuthCallbackCall(a, r) /\ UNCHANGED <<page, call, tabs, guard, backend>>
    \/ Resumes
    \/ Reload /\ UNCHANGED <<page, call, tabs, guard, backend>>

Spec == Init /\ [][Next]_vars

\* the store's interface used one operation at a time: a call starts only
\* when no operation is suspended
NextSeq ==
    \/ Idle /\ LoginCall /\ UNCHANGED <<page, call, tabs, guard, backend>>
    \/ Idle /\ SignupCall /\ UNCHANGED <<page, call, tabs, guard, backend>>
    \/ Idle /\ LogoutCall /\ UNCHANGED <<page, call, tabs, guard, backend>>
    \/ Idle /\ RefreshCall /\ UNCHANGED <<page, call, tabs, guard, backend>>
    \/ Idle /\ CheckAuthCall /\ UNCHANGED <<page, call, tabs, guard, backend>>
    \/ Idle /\ \E a \in Tokens, r \in Tokens : HandleOAuthCallbackCall(a, r) /\ UNCHANGED <<page, call, tabs, guard, backend>>
    \/ Idle /\ \E u \in UserOrNull : SetUser(u) /\ UNCHANGED <<page, call, tabs, guard, backend>>
    \/ Idle /\ \E a \in Tokens, r \in Tokens : SetTokens(a, r) /\ UNCHANGED <<page, call, tabs, guard, backend>>
    \/ Resumes
    \/ Reload /\ UNCHANGED <<page, call, tabs, guard, backend>>

SpecSeq == Init /\ [][NextSeq]_vars

\* the same, where every network call is eventually answered or fails: the
\* operation awaiting it resumes
SpecSeqFair == SpecSeq /\ WF_vars(Resumes)

\* the resumptions of the operations the pages and hooks call directly
AppResumes ==
    \/ \E u \in Users, a \in Tokens, r \in Tokens : LoginOk(u, a, r) /\ call' = NoCall /\ UNCHANGED <<page, tabs, guard, backend>>
    \/ LoginFail /\ call' = NoCall /\ UNCHANGED <<page, tabs, guard, backend>>
    \/ \E u \in Users, a \in Tokens, r \in Tokens : SignupOk(u, a, r) /\ call' = NoCall /\ UNCHANGED <<page, tabs, guard, backend>>
    \/ SignupFail /\ call' = NoCall /\ UNCHANGED <<page, tabs, guard, backend>>
    \/ \E ok \in BOOLEAN : LogoutDone(ok) /\ call' = NoCall /\ UNCHANGED <<page, tabs, guard, backend>>
    \/ \E u \in Users : CheckAuthMeOk(u) /\ call' = NoCall /\ UNCHANGED <<page, tabs, guard, backend>>
    \/ CheckAuthMeFail /\ call' = NoCall /\ UNCHANGED <<page, tabs, guard, backend>>
    \/ \E a \in Tokens, r \in Tokens : CheckAuthRefreshOk(a, r) /\ call' = NoCall /\ UNCHANGED <<page, tabs, guard, backend>>
    \/ CheckAuthRefreshFail /\ call' = NoCall /\ UNCHANGED <<page, tabs, guard, backend>>
    \/ CheckAuthRetry /\ call' = NoCall /\ UNCHANGED <<page, tabs, guard, backend>>
    \/ \E u \in Users : CheckAuthRetryOk(u) /\ call' = NoCall /\ UNCHANGED <<page, tabs, guard, backend>>
    \/ CheckAuthRetryFail /\ call' = NoCall /\ UNCHANGED <<page, tabs, guard, backend>>
    \/ CheckAuthGiveUp /\ call' = NoCall /\ UNCHANGED <<page, tabs, guard, backend>>

\* the application's pages and hooks: the login and signup forms, the user
\* menu's logout, checkAuth of useAuthInit and of the protected pages, the
\* OAuth callback page (the one caller of handleOAuthCallback, entered by the
\* provider's redirect, a page load) and the repository pages' calls of the
\* repository API.  A call may start while others are suspended, except on
\* the callback page.
NextApp ==
    \/ UNCHANGED <<tabs, guard, backend>> /\ ~Awaiting /\ CanCall /\ LoginCall /\ page' = NoPage /\ call' = NoCall
    \/ UNCHANGED <<tabs, guard, backend>> /\ ~Awaiting /\ CanCall /\ SignupCall /\ page' = NoPage /\ call' = NoCall
    \/ UNCHANGED <<tabs, guard, backend>> /\ ~Awaiting /\ CanCall /\ LogoutCall /\ page' = NoPage /\ call' = NoCall
    \/ UNCHANGED <<tabs, guard, backend>> /\ ~Awaiting /\ CanCall /\ CheckAuthCall /\ page' = NoPage /\ call' = NoCall
    \/ AppResumes
    \/ UNCHANGED <<tabs, guard, backend>> /\ TaskBoundary /\ Idle /\ call' = NoCall /\ \E query \in Queries : ProcessCallback(query)
    \/ UNCHANGED <<tabs, guard, backend>> /\ call' = NoCall /\ \E u \in Users : HandleOAuthCallbackResolved(u)
    \/ UNCHANGED <<tabs, guard, backend>> /\ \E reply \in Replies : HandleOAuthCallbackRejected(reply)
    \/ UNCHANGED <<tabs, guard, backend>> /\ call' = NoCall /\ ProcessCallbackResolved
    \/ UNCHANGED <<tabs, guard, backend>> /\ call' = NoCall /\ ProcessCallbackRejected
    \/ ~Awaiting /\ CanCall /\ RepositoriesList
    \/ ~Awaiting /\ CanCall /\ RepositoriesAdd
    \/ ~Awaiting /\ CanCall /\ RepositoriesGet
    \/ ~Awaiting /\ CanCall /\ RepositoriesUpdate
    \/ ~Awaiting /\ CanCall /\ RepositoriesDelete
    \/ ~Awaiting /\ CanCall /\ RepositoriesSync
    \/ ~Awaiting /\ CanCall /\ RepositoriesGetBranches
    \/ ~Awaiting /\ CanCall /\ RepositoriesGetWebhooks
    \/ ~Awaiting /\ BagCardinality(inflight) + 2 <= MaxInFlight /\ LoadRepository
    \/ FetchWithAuthResolved
    \/ \E reply \in RepositoryReplies : FetchWithAuthRejected(reply)
    \/ UNCHANGED <<tabs, guard, backend>> /\ TaskBoundary /\ Reload /\ page' = NoPage /\ call' = NoCall

SpecApp == Init /\ [][NextApp]_vars

\* ------------------------------------------------------------ two tabs
\* variant of Notify: a write of the entry queues no storage event
NotifySilent(startup) == tabs' = [tabs EXCEPT !.startup = startup]

\* a segment of this tab: when it leaves the entry with another text, the
\* browser queues a storage event for the other tab
Notify(startup) ==
    tabs' = [tabs EXCEPT !.startup = startup,
                         !.other.events = IF persisted' # persisted
                                          THEN @ \cup {Name} ELSE @]

\* the 'storage' listener runs for an event: for the store's key, queued
\* when the other tab wrote the entry, it calls window.location.reload(),
\* which starts the navigation and returns (the page, its store and its
\* suspended operations stay as they are until the new page is there); for
\* any other key the listener returns and nothing happens
StorageListener(key) ==
    /\ IF key = Name
       THEN /\ Name \in tabs.events
            /\ tabs' = [tabs EXCEPT !.events = @ \ {Name}, !.reloading = TRUE]
            /\ changed' = {}
            /\ published' = <<>>
            /\ requests' = <<>>
            /\ response' = NoResponse
            /\ completed' = NoneCompleted
            /\ UNCHANGED <<session, persisted, inflight>>
       ELSE UNCHANGED <<store, tabs>>
    /\ UNCHANGED <<page, call, guard, backend>>

\* the navigation started by window.location.reload() commits: the old
\* page, its suspended operations and the events queued for it are gone and
\* the store is created again from the entry
LocationReload ==
    /\ tabs.reloading
    /\ Reload
    /\ tabs' = Tabs(tabs.focus, {}, "fresh", FALSE,
                    [tabs.other EXCEPT !.events = IF persisted' # persisted
                                                 THEN @ \cup {Name} ELSE @])
    /\ UNCHANGED <<page, call, guard, backend>>

\* the model turns to the other tab
SwitchTab ==
    /\ session' = tabs.other.session
    /\ inflight' = tabs.other.inflight
    /\ tabs' = Tabs(3 - tabs.focus, tabs.other.events, tabs.other.startup,
                    tabs.other.reloading,
                    Tab(session, inflight, tabs.events, tabs.startup, tabs.reloading))
    /\ changed' = {}
    /\ published' = <<>>
    /\ requests' = <<>>
    /\ response' = NoResponse
    /\ completed' = NoneCompleted
    /\ UNCHANGED <<persisted, page, call, guard, backend>>

\* the resumptions of a tab's operations
TabResumes ==
    \/ (\E u \in Users, a \in Tokens, r \in Tokens : LoginOk(u, a, r)) /\ Notify(tabs.startup)
    \/ LoginFail /\ Notify(tabs.startup)
    \/ (\E ok \in BOOLEAN : LogoutDone(ok)) /\ Notify(tabs.startup)
    \/ (\E a \in Tokens, r \in Tokens : RefreshOk(a, r)) /\ Notify(tabs.startup)
    \/ RefreshFail /\ Notify(tabs.startup)
    \/ (\E u \in Users : CheckAuthMeOk(u)) /\ Notify(tabs.startup)
    \/ CheckAuthMeFail /\ Notify(tabs.startup)
    \/ (\E a \in Tokens, r \in Tokens : CheckAuthRefreshOk(a, r)) /\ Notify(tabs.startup)
    \/ CheckAuthRefreshFail /\ Notify(tabs.startup)
    \/ CheckAuthRetry /\ Notify(tabs.startup)
    \/ (\E u \in Users : CheckAuthRetryOk(u)) /\ Notify(tabs.startup)
    \/ CheckAuthRetryFail /\ Notify(tabs.startup)
    \/ CheckAuthGiveUp /\ Notify(tabs.startup)

\* the user works in the first tab
Operated == tabs.focus = 1 /\ tabs.startup # "fresh"

\* two tabs of the application on the same localStorage: a tab calls
\* checkAuth when it has loaded (its startup checkAuth), the user works in
\* the first tab, one operation at a time, and the second tab follows
NextTabs ==
    \/ Idle /\ Operated /\ LoginCall /\ Notify("no") /\ UNCHANGED <<page, call, guard, backend>>
    \/ Idle /\ Operated /\ LogoutCall /\ Notify("no") /\ UNCHANGED <<page, call, guard, backend>>
    \/ Idle /\ Operated /\ RefreshCall /\ Notify("no") /\ UNCHANGED <<page, call, guard, backend>>
    \/ Idle /\ tabs.startup = "fresh" /\ CheckAuthCall /\ Notify("running")
            /\ UNCHANGED <<page, call, guard, backend>>
    \/ TabResumes /\ UNCHANGED <<page, call, guard, backend>>
    \/ \E key \in {Name, OtherKey} : StorageListener(key)
    \/ LocationReload
    \/ SwitchTab

InitTabs ==
    /\ session = InitialState
    /\ persisted \in {NoEntry, Stringify(Partialize(InitialState))}
    /\ inflight = EmptyBag
    /\ changed = {}
    /\ published = <<>>
    /\ requests = <<>>
    /\ response = NoResponse
    /\ completed = NoneCompleted
    /\ page = NoPage
    /\ call = NoCall
    /\ tabs = TwoTabs
    /\ guard = NoGuard
    /\ backend = NoBackend

SpecTabs == InitTabs /\ [][NextTabs]_vars

\* ------------------------------------------------- pages and the guard
\* ProtectedRoute mounts: its first render, with the state it finds; its
\* effects are left to run after the commit
GuardMount(pathname) ==
    /\ ~guard.mounted
    /\ CanCall
    /\ guard' = [Rendered(Mounted(guard, pathname), session) EXCEPT !.effects = "pending"]
    /\ UNCHANGED <<store, page, call, tabs, backend>>

\* the effects of the mount run: the first calls checkAuth(), which reads
\* the store as it is now, the second runs with the values of the first
\* render; the store having changed, ProtectedRoute renders again
GuardEffects ==
    /\ guard.effects = "pending"
    /\ CheckAuthCall
    /\ guard' = Observe([SecondEffect(guard) EXCEPT !.effects = "done"], session')
    /\ UNCHANGED <<page, call, tabs, backend>>

\* the router leaves the protected page; effects that are pending run before
\* the page is taken down
GuardUnmount ==
    /\ guard.mounted
    /\ guard.effects # "pending"
    /\ guard' = Unmounted(guard)
    /\ UNCHANGED <<store, page, call, tabs, backend>>

\* the login form's button, disabled while isLoading
LoginSubmit ==
    /\ ~guard.mounted
    /\ ~session.isLoading
    /\ CanCall
    /\ LoginCall
    /\ UNCHANGED <<page, call, tabs, guard, backend>>

\* the user menu's logout entry, shown when a user is held; effects that
\* are pending run before the click is handled
HandleLogout ==
    /\ session.user # Null
    /\ guard.effects # "pending"
    /\ CanCall
    /\ LogoutCall
    /\ guard' = Observe(guard, session')
    /\ UNCHANGED <<page, call, tabs, backend>>

\* ProtectedRoute renders again after a segment that changed the store; one
\* whose effects are still pending renders again once they have run
Rerender ==
    /\ guard' = IF guard.effects = "pending" THEN guard ELSE Observe(guard, session')
    /\ UNCHANGED <<page, call, tabs, backend>>

GuardResumes ==
    \/ (\E u \in Users, a \in Tokens, r \in Tokens : LoginOk(u, a, r)) /\ Rerender
    \/ LoginFail /\ Rerender
    \/ (\E ok \in BOOLEAN : LogoutDone(ok)) /\ Rerender
    \/ (\E u \in Users : CheckAuthMeOk(u)) /\ Rerender
    \/ CheckAuthMeFail /\ Rerender
    \/ (\E a \in Tokens, r \in Tokens : CheckAuthRefreshOk(a, r)) /\ Rerender
    \/ CheckAuthRefreshFail /\ Rerender
    \/ CheckAuthRetry /\ Rerender
    \/ (\E u \in Users : CheckAuthRetryOk(u)) /\ Rerender
    \/ CheckAuthRetryFail /\ Rerender
    \/ CheckAuthGiveUp /\ Rerender

\* the store driven by the components that call it: ProtectedRoute on its
\* mount, the login form, the user menu
NextGuard ==
    \/ \E pathname \in Pathnames : GuardMount(pathname)
    \/ GuardEffects
    \/ GuardUnmount
    \/ LoginSubmit
    \/ HandleLogout
    \/ GuardResumes

SpecGuard == Init /\ [][NextGuard]_vars

\* ------------------------------------- checkAuth against one backend
\* the step resumes a suspended checkAuth whose request carried token tok
ResumedWith(tok) ==
    \E c \in BagToSet(inflight) :
        /\ c.op = "checkAuth"
        /\ c.tok = tok
        /\ CopiesIn(c, inflight') < CopiesIn(c, inflight)

\* GET /api/auth/me is answered for a token the backend accepts
TwinMeOk ==
    /\ \E u \in Users : CheckAuthMeOk(u) \/ CheckAuthRetryOk(u)
    /\ \E tok \in backend.valid : ResumedWith(tok)
    /\ UNCHANGED <<page, call, tabs, guard, backend>>

\* GET /api/auth/me is refused for any other token
TwinMeFail ==
    /\ CheckAuthMeFail \/ CheckAuthRetryFail
    /\ \E tok \in Tokens \ backend.valid : ResumedWith(tok)
    /\ UNCHANGED <<page, call, tabs, guard, backend>>

\* POST /api/auth/refresh exchanges a refresh token once, for tokens it has
\* not issued before
TwinRefreshOk ==
    \E tok \in Tokens \ backend.used :
        \E a \in Tokens \ (backend.valid \cup backend.expired),
           r \in Tokens \ (backend.used \cup {tok}) :
            /\ CheckAuthRefreshOk(a, r)
            /\ ResumedWith(tok)
            /\ backend' = Backend(backend.valid \cup {a}, backend.expired,
                                  backend.used \cup {tok})
            /\ UNCHANGED <<page, call, tabs, guard>>

\* and refuses a refresh token it has exchanged already
TwinRefreshFail ==
    /\ CheckAuthRefreshFail
    /\ \E tok \in backend.used : ResumedWith(tok)
    /\ UNCHANGED <<page, call, tabs, guard, backend>>

\* checkAuth called while others may be suspended, as every ProtectedRoute
\* mount does, against a backend that holds the session's access token expired
\* and exchanges each refresh token once
NextTwin ==
    \/ CanCall /\ CheckAuthCall /\ UNCHANGED <<page, call, tabs, guard, backend>>
    \/ TwinMeOk
    \/ TwinMeFail
    \/ TwinRefreshOk
    \/ TwinRefreshFail
    \/ CheckAuthRetry /\ UNCHANGED <<page, call, tabs, guard, backend>>
    \/ CheckAuthGiveUp /\ UNCHANGED <<page, call, tabs, guard, backend>>

\* a session obtained earlier (after login, or hydrated at load) whose access
\* token has expired
InitTwin ==
    /\ \E u \in Users, a \in Tokens, r \in Tokens :
          /\ session \in {Set(InitialState, [user |-> u, accessToken |-> a, refreshToken |-> r,
                                                isAuthenticated |-> TRUE, isLoading |-> FALSE]),
                           Hydrate([user |-> u, accessToken |-> a, refreshToken |-> r])}
          /\ persisted = Stringify(Partialize(session))
          /\ backend = Backend({}, {a}, {})
    /\ inflight = EmptyBag
    /\ changed = {}
    /\ published = <<>>
    /\ requests = <<>>
    /\ response = NoResponse
    /\ completed = NoneCompleted
    /\ page = NoPage
    /\ call = NoCall
    /\ tabs = OneTab
    /\ guard = NoGuard

SpecTwin == InitTwin /\ [][NextTwin]_vars

\* ------------------------------------------ tokens and their accounts
\* the account a token was issued to
Owner(tok) == ((tok - 1) % MaxUsers) + 1

\* login answered: the user and the tokens of one account
OwnLoginOk ==
    /\ \E a \in Tokens, r \in Tokens :
          Owner(a) = Owner(r) /\ LoginOk(Owner(a), a, r)
    /\ UNCHANGED <<page, call, tabs, guard, backend>>

\* GET /api/auth/me answered: the account of the token the request carried
OwnMeOk ==
    /\ \E c \in Waiting("checkAuth", "me1") \cup Waiting("checkAuth", "me2") :
          CheckAuthMeOk(Owner(c.tok)) \/ CheckAuthRetryOk(Owner(c.tok))
    /\ UNCHANGED <<page, call, tabs, guard, backend>>

\* POST /api/auth/refresh answered: new tokens of the refresh token's account
OwnRefreshOk ==
    /\ \E c \in Waiting("checkAuth", "refresh") :
          \E a \in Tokens, r \in Tokens :
              /\ Owner(a) = Owner(c.tok)
              /\ Owner(r) = Owner(c.tok)
              /\ CheckAuthRefreshOk(a, r)
    /\ UNCHANGED <<page, call, tabs, guard, backend>>

\* the callback page hands over the tokens of one account
OwnOAuthCall ==
    /\ Idle
    /\ \E a \in Tokens, r \in Tokens :
          Owner(a) = Owner(r) /\ HandleOAuthCallbackCall(a, r)
    /\ UNCHANGED <<page, call, tabs, guard, backend>>

OwnOAuthOk ==
    /\ \E c \in Waiting("handleOAuthCallback", "me") :
          HandleOAuthCallbackOk(Owner(c.tok))
    /\ UNCHANGED <<page, call, tabs, guard, backend>>

\* the store used one operation at a time against a backend that answers
\* with the account each token belongs to
NextOwn ==
    \/ Idle /\ LoginCall /\ UNCHANGED <<page, call, tabs, guard, backend>>
    \/ OwnLoginOk
    \/ LoginFail /\ UNCHANGED <<page, call, tabs, guard, backend>>
    \/ Idle /\ LogoutCall /\ UNCHANGED <<page, call, tabs, guard, backend>>
    \/ (\E ok \in BOOLEAN : LogoutDone(ok)) /\ UNCHANGED <<page, call, tabs, guard, backend>>
    \/ Idle /\ CheckAuthCall /\ UNCHANGED <<page, call, tabs, guard, backend>>
    \/ OwnMeOk
    \/ CheckAuthMeFail /\ UNCHANGED <<page, call, tabs, guard, backend>>
    \/ OwnRefreshOk
    \/ CheckAuthRefreshFail /\ UNCHANGED <<page, call, tabs, guard, backend>>
    \/ CheckAuthRetry /\ UNCHANGED <<page, call, tabs, guard, backend>>
    \/ CheckAuthRetryFail /\ UNCHANGED <<page, call, tabs, guard, backend>>
    \/ CheckAuthGiveUp /\ UNCHANGED <<page, call, tabs, guard, backend>>
    \/ OwnOAuthCall
    \/ OwnOAuthOk
    \/ HandleOAuthCallbackFail /\ UNCHANGED <<page, call, tabs, guard, backend>>
    \/ Reload /\ UNCHANGED <<page, call, tabs, guard, backend>>

SpecOwn == Init /\ [][NextOwn]_vars

\* authApi on its own: each of its five calls against every reply
AuthApiSignup ==
    /\ \E reply \in Replies : AuthApiCall("signup", reply)
    /\ UNCHANGED <<store, page, tabs, guard, backend>>
AuthApiLogin ==
    /\ \E reply \in Replies : AuthApiCall("login", reply)
    /\ UNCHANGED <<store, page, tabs, guard, backend>>
AuthApiLogout ==
    /\ \E reply \in Replies : AuthApiCall("logout", reply)
    /\ UNCHANGED <<store, page, tabs, guard, backend>>
AuthApiGetMe ==
    /\ \E reply \in Replies : AuthApiCall("getMe", reply)
    /\ UNCHANGED <<store, page, tabs, guard, backend>>
AuthApiRefreshToken ==
    /\ \E reply \in Replies : AuthApiCall("refreshToken", reply)
    /\ UNCHANGED <<store, page, tabs, guard, backend>>

NextApi ==
    \/ AuthApiSignup
    \/ AuthApiLogin
    \/ AuthApiLogout
    \/ AuthApiGetMe
    \/ AuthApiRefreshToken

SpecApi == Init /\ [][NextApi]_vars

\* ================================================================ claims
Unauthenticated ==
    [user |-> Null, accessToken |-> Null, refreshToken |-> Null,
     isAuthenticated |-> FALSE, isLoading |-> FALSE]

Finished(op) == completed.op = op
Pending(op) == \E c \in BagToSet(inflight) : c.op = op

\* C1: when the login or signup request is answered successfully, the call
\* resolves and the session is exactly {user, accessToken, refreshToken} of
\* the response (user non-null), isAuthenticated = true, isLoading = false,
\* whatever it was before; the segment publishes that one state only: the
\* five fields are written by a single set().
C1_LoginSignupSuccess ==
    ((Finished("login") \/ Finished("signup")) /\ response.kind = "ok") =>
        /\ completed.outcome = "resolved"
        /\ response.user # Null
        /\ session = [user |-> response.user,
                      accessToken |-> response.access_token,
                      refreshToken |-> response.refresh_token,
                      isAuthenticated |-> TRUE, isLoading |-> FALSE]
        /\ published = <<session>>

\* a login succeeded and replaced every one of the five fields at once
C1_Witness ==
    /\ Finished("login")
    /\ completed.outcome = "resolved"
    /\ changed = Fields
    /\ session.accessToken # session.refreshToken

\* C2: a login or signup whose request fails rejects, and neither its call
\* segment nor its failure segment changes user, accessToken, refreshToken or
\* isAuthenticated: the only field they write is isLoading, false at the end.
C2_LoginSignupFailureFrame ==
    /\ (Pending("login") \/ Pending("signup")) =>
           /\ changed \subseteq {"isLoading"}
           /\ session.isLoading
    /\ ((Finished("login") \/ Finished("signup")) /\ response.kind = "error") =>
           /\ completed.outcome = "rejected"
           /\ changed \subseteq {"isLoading"}
           /\ ~session.isLoading

\* a login failed while a user was signed in, and the user still is
C2_Witness ==
    /\ Finished("login")
    /\ completed.outcome = "rejected"
    /\ session.user # Null
    /\ session.accessToken # Null
    /\ session.refreshToken # Null
    /\ session.isAuthenticated

\* C3: when logout finishes it has resolved and the session is fully cleared
\* with isLoading = false, whether the remote logout was acknowledged, failed,
\* or was not called because no access token was held.
C3_LogoutClears ==
    Finished("logout") =>
        /\ completed.outcome = "resolved"
        /\ completed.path \in {"acked", "failed", "notoken"}
        /\ session = Unauthenticated
        /\ (completed.path = "notoken") = (completed.tok = Null)

\* the remote logout failed for a signed-in user, who is signed out all the same
C3_Witness ==
    /\ Finished("logout")
    /\ completed.path = "failed"
    /\ response.kind = "error"
    /\ {"user", "accessToken", "refreshToken", "isAuthenticated"} \subseteq changed

\* C4: a checkAuth whose first current-user fetch is rejected and whose
\* refresh is accepted stores the pair the refresh returned, retries the fetch
\* with the access token now stored, and when that fetch succeeds ends with
\* isAuthenticated = true, user = the fetched user, isLoading = false and that
\* new access token still stored.
C4_CheckAuthRefreshRetry ==
    /\ (\E c \in Waiting("checkAuth", "refreshed") : TRUE) =>
           /\ response.kind = "ok"
           /\ session.accessToken = response.access_token
           /\ session.refreshToken = response.refresh_token
    /\ \A c \in Waiting("checkAuth", "me2") :
           /\ c.tok = session.accessToken
           /\ requests = <<Request("getMe", session.accessToken)>>
           /\ changed = {}
    /\ (Finished("checkAuth") /\ completed.path = "retried") =>
           /\ completed.outcome = "resolved"
           /\ response.user # Null
           /\ session.user = response.user
           /\ session.isAuthenticated
           /\ ~session.isLoading
           /\ session.accessToken = completed.tok
           /\ session.refreshToken # Null
           /\ changed \subseteq {"user", "isAuthenticated", "isLoading"}

\* checkAuth ended authenticated after a refresh, holding an access token
\* other than the expired one it was called with
C4_Witness ==
    /\ Finished("checkAuth")
    /\ completed.path = "retried"
    /\ session.accessToken # completed.at
    /\ session.isAuthenticated

\* C5: a checkAuth whose first current-user fetch is rejected ends resolved
\* and with the session fully cleared (isLoading = false) when no refresh
\* token is held, when the refresh fails, and when the refresh succeeds but
\* the retried fetch fails; checkAuth never rejects.
C5_CheckAuthFailureClears ==
    /\ Finished("checkAuth") => completed.outcome = "resolved"
    /\ (Finished("checkAuth")
          /\ completed.path \in {"norefresh", "refreshfail", "retryfailed"}) =>
           session = Unauthenticated

\* checkAuth found no refresh token after its fetch was rejected
C5_Witness ==
    /\ Finished("checkAuth")
    /\ completed.path = "norefresh"
    /\ completed.at # Null

\* C6: refreshTokens called with a refresh token held writes nothing before
\* the answer; on success it replaces accessToken and refreshToken by the
\* returned pair, leaves user, isAuthenticated and isLoading alone and returns
\* true; on failure it nulls user and both tokens, sets isAuthenticated false,
\* leaves isLoading alone and returns false; it never rejects.
C6_RefreshTokens ==
    /\ \A c \in Waiting("refreshTokens", "await") :
           /\ changed = {}
           /\ requests = <<Request("refresh", session.refreshToken)>>
    /\ Finished("refreshTokens") => completed.outcome = "resolved"
    /\ (Finished("refreshTokens") /\ response.kind = "ok") =>
           /\ completed.ret = "true"
           /\ session.accessToken = response.access_token
           /\ session.refreshToken = response.refresh_token
           /\ changed \subseteq {"accessToken", "refreshToken"}
    /\ (Finished("refreshTokens") /\ response.kind = "error") =>
           /\ completed.ret = "false"
           /\ session.user = Null
           /\ session.accessToken = Null
           /\ session.refreshToken = Null
           /\ ~session.isAuthenticated
           /\ changed \subseteq {"user", "accessToken", "refreshToken", "isAuthenticated"}

\* a refresh replaced the access token of a signed-in user
C6_Witness ==
    /\ Finished("refreshTokens")
    /\ completed.ret = "true"
    /\ "accessToken" \in changed
    /\ session.user # Null
    /\ session.isAuthenticated

\* C7: refreshTokens called with no refresh token returns false, issues no
\* request and writes no field of the session or of the stored entry; a
\* refresh request is only ever pending for a non-null refresh token.
C7_RefreshWithoutToken ==
    /\ (Finished("refreshTokens") /\ completed.path = "notoken") =>
           /\ completed.ret = "false"
           /\ completed.outcome = "resolved"
           /\ requests = <<>>
           /\ published = <<>>
           /\ changed = {}
           /\ session.refreshToken = Null
           /\ persisted # NoEntry => Parse(persisted) = Partialize(session)
    /\ \A c \in Waiting("refreshTokens", "await") : c.tok # Null

\* refreshTokens returned false at once in a session that is not loading
C7_Witness ==
    /\ Finished("refreshTokens")
    /\ completed.path = "notoken"
    /\ ~session.isLoading

\* C8: checkAuth called with no access token issues no request, ends with
\* isLoading = false, leaves user, tokens and isAuthenticated unchanged, and
\* the session is unauthenticated afterwards.
C8_CheckAuthWithoutToken ==
    (Finished("checkAuth") /\ completed.path = "notoken") =>
        /\ requests = <<>>
        /\ ~session.isLoading
        /\ changed \subseteq {"isLoading"}
        /\ ~session.isAuthenticated

\* C9: handleOAuthCallback(T1, T2) stores T1 and T2 and fetches the current
\* user with T1; when the fetch succeeds it resolves with accessToken = T1,
\* refreshToken = T2, user = the fetched user, isAuthenticated = true and
\* isLoading = false.
C9_OAuthCallbackSuccess ==
    /\ \A c \in Waiting("handleOAuthCallback", "me") :
           /\ session.accessToken = c.at
           /\ session.refreshToken = c.rt
           /\ session.isLoading
           /\ requests = <<Request("getMe", c.at)>>
    /\ (Finished("handleOAuthCallback") /\ response.kind = "ok") =>
           /\ completed.outcome = "resolved"
           /\ response.user # Null
           /\ session = [user |-> response.user,
                         accessToken |-> completed.at,
                         refreshToken |-> completed.rt,
                         isAuthenticated |-> TRUE, isLoading |-> FALSE]

\* an OAuth callback with two different tokens succeeded and replaced the user
C9_Witness ==
    /\ Finished("handleOAuthCallback")
    /\ completed.outcome = "resolved"
    /\ completed.at # completed.rt
    /\ "user" \in changed

\* C10: when the fetch of handleOAuthCallback(T1, T2) fails, the call rejects
\* with T1 and T2 still in the session and in the stored entry,
\* isAuthenticated = false and isLoading = false; user is not touched.
C10_OAuthCallbackFailureKeepsTokens ==
    (Finished("handleOAuthCallback") /\ response.kind = "error") =>
        /\ completed.outcome = "rejected"
        /\ session.accessToken = completed.at
        /\ session.refreshToken = completed.rt
        /\ completed.at # Null
        /\ completed.rt # Null
        /\ Parse(persisted).accessToken = completed.at
        /\ Parse(persisted).refreshToken = completed.rt
        /\ ~session.isAuthenticated
        /\ ~session.isLoading
        /\ changed \subseteq {"isLoading", "isAuthenticated"}

\* a failed OAuth callback left its two tokens stored, next to the user of
\* the session it interrupted
C10_Witness ==
    /\ Finished("handleOAuthCallback")
    /\ completed.outcome = "rejected"
    /\ session.accessToken = completed.at
    /\ session.refreshToken = completed.rt
    /\ completed.at # completed.rt
    /\ session.user # Null


\* C11: the callback page calls handleOAuthCallback only for a query with no
\* error and with both tokens (a parameter whose value is empty counts as
\* absent, as the page tests it); a query with an error ends in failure with
\* the error_description, or 'Authentication failed' without one; a query
\* with no error and a token missing ends in failure with 'Missing
\* authentication tokens'; both failures leave every session field, the
\* stored entry and the suspended operations as they were, issue no request
\* and stay off /dashboard, which the page pushes only after the call.
HasError(query) == TruthyText(query.error)
HasBothTokens(query) == TruthyToken(query.access_token) /\ TruthyToken(query.refresh_token)
\* the step calls the operation: one more of it is suspended
Started(op) ==
    \E c \in BagToSet(inflight') :
        c.op = op /\ CopiesIn(c, inflight') > CopiesIn(c, inflight)

C11_CallbackPageGuards ==
    [][/\ Started("handleOAuthCallback")
           => /\ ~HasError(page'.query) /\ HasBothTokens(page'.query)
              /\ page'.stage = "awaiting"
       /\ (Finished("processCallback")'
             /\ (HasError(page'.query) \/ ~HasBothTokens(page'.query)))
           => /\ page'.stage = "failed"
              /\ page'.error = IF HasError(page'.query)
                               THEN <<ErrorDescription(page'.query)>>
                               ELSE <<"Missing authentication tokens">>
              /\ page'.route # "/dashboard"
              /\ session' = session
              /\ persisted' = persisted
              /\ published' = <<>>
              /\ requests' = <<>>
              /\ inflight' = inflight
       /\ Finished("processCallback")'
           => (completed'.path \in {"error", "missing"}
                 <=> (HasError(page'.query) \/ ~HasBothTokens(page'.query)))
       /\ page'.route = "/dashboard"
           => ~HasError(page'.query) /\ HasBothTokens(page'.query)]_vars

C11_Witness ==
    /\ Finished("processCallback")
    /\ page.query.error = <<"access_denied">>
    /\ page.query.error_description = <<"User denied">>
    /\ HasBothTokens(page.query)
    /\ page.error = <<"User denied">>
    /\ session.accessToken # Null
    /\ session.accessToken # page.query.access_token[1]

\* C12: the stored entry's state has exactly the members accessToken,
\* refreshToken and user; a reload gives the session the three fields it had
\* before, read back from the entry, and gives isLoading = true and
\* isAuthenticated = false whatever they were before the reload.
C12_PersistedRoundTrip ==
    /\ [](persisted # NoEntry =>
             Keys(Member(persisted, "state")) = {"accessToken", "refreshToken", "user"})
    /\ [][Reload => /\ Partialize(session') = Partialize(session)
                    /\ persisted # NoEntry => Partialize(session') = Parse(persisted)
                    /\ session'.isLoading
                    /\ ~session'.isAuthenticated]_vars

C12_Witness ==
    /\ completed = NoneCompleted
    /\ published = <<>>
    /\ changed = {"isLoading", "isAuthenticated"}
    /\ persisted # NoEntry
    /\ session.user # Null
    /\ session.accessToken # Null
    /\ session.refreshToken # Null
    /\ session.isLoading
    /\ ~session.isAuthenticated

\* a segment that turned isAuthenticated from false to true
BecameAuthenticated == "isAuthenticated" \in changed /\ session.isAuthenticated

\* the segment resumed checkAuth or handleOAuthCallback with the current user,
\* which its request, made with an access token, fetched
FetchedCurrentUser ==
    /\ Finished("checkAuth") \/ Finished("handleOAuthCallback")
    /\ response.kind = "ok"
    /\ response.user = session.user
    /\ completed.tok # Null

\* C13 as stated: isAuthenticated becomes true only in a segment that resumes
\* with a successful fetch of the current user made with an access token the
\* session holds.
C13_AuthenticatedOnlyAfterFetch ==
    BecameAuthenticated => FetchedCurrentUser /\ completed.tok = session.accessToken

\* C13 as amended: isAuthenticated becomes true only on a successful login or
\* signup response, which carries the user, on a successful fetch of the
\* current user by checkAuth or handleOAuthCallback, or on setUser with a
\* user; and every request for the current user carries the access token the
\* session holds when the request is issued.
C13_AuthenticatedOnlyAfterResponse ==
    /\ BecameAuthenticated =>
           \/ FetchedCurrentUser
           \/ /\ Finished("login") \/ Finished("signup")
              /\ response.kind = "ok"
              /\ response.user = session.user
              /\ response.user # Null
           \/ Finished("setUser") /\ session.user # Null
    /\ \A i \in 1..Len(requests) :
           requests[i].api = "getMe" =>
               requests[i].tok # Null /\ requests[i].tok = session.accessToken

C13_Witness ==
    /\ BecameAuthenticated
    /\ Finished("checkAuth")
    /\ completed.path = "retried"
    /\ completed.tok # completed.at

\* C14: in every state the session is in or publishes, accessToken and
\* refreshToken are both held or both null.
TokensPaired(s) == (s.accessToken = Null) <=> (s.refreshToken = Null)

C14_TokensPaired ==
    /\ TokensPaired(session)
    /\ \A i \in 1..Len(published) : TokensPaired(published[i])
    /\ persisted # NoEntry => TokensPaired(Parse(persisted))

C14_Witness ==
    /\ Finished("refreshTokens")
    /\ completed.ret = "false"
    /\ {"accessToken", "refreshToken"} \subseteq changed
    /\ session.accessToken = Null
    /\ session.refreshToken = Null

\* C15: whenever no operation is in flight, isAuthenticated is true exactly
\* when user is non-null.
C15_AuthenticatedIffUser ==
    Idle => (session.isAuthenticated <=> session.user # Null)

\* C16: isLoading is true in every state in which an operation is in flight.
C16_LoadingWhileInFlight == inflight # EmptyBag => session.isLoading

\* a segment that changed isAuthenticated
AuthenticationChanged == "isAuthenticated" \in changed
\* the state the store is created in again by a reload
Reloaded == completed = NoneCompleted /\ inflight = EmptyBag /\ published = <<>>
\* the segment in which checkAuth's own refreshTokens() failed
RefreshFailedInCheckAuth ==
    /\ completed = NoneCompleted
    /\ response.kind = "error"
    /\ \E c \in BagToSet(inflight) : c.op = "checkAuth" /\ c.pc = "refreshfail"

\* C17 as stated: an operation changes isAuthenticated from true to false only
\* in logout or in checkAuth after its fetch failed, and from false to true
\* only in a login, signup, handleOAuthCallback or checkAuth that resolves.
C17_TransitionsAsStated ==
    (AuthenticationChanged /\ ~Reloaded /\ ~Finished("setUser")) =>
        IF session.isAuthenticated
        THEN /\ \/ Finished("login") \/ Finished("signup")
                \/ Finished("handleOAuthCallback") \/ Finished("checkAuth")
             /\ completed.outcome = "resolved"
        ELSE Finished("logout") \/ Finished("checkAuth") \/ RefreshFailedInCheckAuth

\* C17 as amended: isAuthenticated changes from true to false only in logout,
\* in a refreshTokens whose request failed (called on its own or by checkAuth),
\* in a checkAuth that gives up, in a handleOAuthCallback that rejects, in
\* setUser(null) and in a reload; it changes from false to true only in a
\* login, signup, handleOAuthCallback or checkAuth resuming with a successful
\* response, and in setUser with a user.  A failed login or signup never
\* changes it.
C17_Transitions ==
    AuthenticationChanged =>
        IF session.isAuthenticated
        THEN \/ /\ \/ Finished("login") \/ Finished("signup")
                    \/ Finished("handleOAuthCallback") \/ Finished("checkAuth")
                 /\ completed.outcome = "resolved"
                 /\ response.kind = "ok"
             \/ Finished("setUser") /\ session.user # Null
        ELSE \/ Finished("logout")
             \/ Finished("refreshTokens") /\ completed.ret = "false"
                                          /\ response.kind = "error"
             \/ RefreshFailedInCheckAuth
             \/ Finished("checkAuth")
                  /\ completed.path \in {"norefresh", "refreshfail", "retryfailed", "lost"}
             \/ Finished("handleOAuthCallback") /\ completed.outcome = "rejected"
             \/ Finished("setUser") /\ session.user = Null
             \/ Reloaded

C17_Witness ==
    /\ AuthenticationChanged
    /\ ~session.isAuthenticated
    /\ Finished("handleOAuthCallback")
    /\ completed.outcome = "rejected"

\* C18: a login, signup or handleOAuthCallback whose request fails rejects;
\* checkAuth, refreshTokens and logout always resolve, whatever their requests
\* were answered with: a failed refreshTokens resolves with false, a checkAuth
\* that could not fetch the user leaves the cleared session, and a logout
\* whose remote call failed resolves like any other.
C18_ErrorPropagation ==
    /\ (Finished("login") \/ Finished("signup") \/ Finished("handleOAuthCallback"))
           => (completed.outcome = "rejected" <=> response.kind = "error")
    /\ (Finished("checkAuth") \/ Finished("refreshTokens") \/ Finished("logout"))
           => completed.outcome = "resolved"
    /\ (Finished("refreshTokens") /\ response.kind = "error") => completed.ret = "false"
    /\ (Finished("checkAuth") /\ response.kind = "error") => session = Unauthenticated
    /\ (Finished("logout") /\ response.kind = "error") => session = Unauthenticated

C18_Witness ==
    /\ Finished("logout")
    /\ completed.path = "failed"
    /\ response.kind = "error"
    /\ completed.outcome = "resolved"

\* C19: whatever failure answers a call of authApi - a response that is not
\* ok with a detail, without one, with a body that is not JSON, or no response
\* at all - the call throws one Error whose message is the detail when the
\* body has one (and it is not empty) and the call's fallback otherwise.
C19_ErrorTranslation ==
    (call.op # "none" /\ call.reply \in FailureReplies) =>
        /\ call.result.outcome = "thrown"
        /\ call.result.name = "Error"
        /\ call.result.message =
               IF call.reply.kind = "json" /\ call.reply.detail \notin {<<>>, <<"">>}
               THEN call.reply.detail[1]
               ELSE Fallback(call.op)

\* C20: a repository API call issues one request, which carries the access
\* token of the stored session as its bearer credential when the stored
\* session has one and no Authorization header otherwise (two calls made
\* together issue one request each); when the response is not ok (401
\* included) the call rejects, and that segment issues no request, starts no
\* operation and leaves every session field and the stored entry as they
\* were.
FinishedRepositoryCall == completed.op \in RepositoryCalls
\* the repository calls the step makes
StartedRepositoryCalls == {api \in RepositoryCalls : Started(api)}
\* the access token of the stored session, Null when it has none
EntryToken == IF persisted = NoEntry THEN Null ELSE Parse(persisted).accessToken

C20_RepositoryCalls ==
    [][/\ StartedRepositoryCalls # {} =>
             /\ Len(requests') = BagCardinality(inflight') - BagCardinality(inflight)
             /\ Len(requests') = Cardinality(StartedRepositoryCalls)
             /\ \A i \in 1..Len(requests') :
                    /\ requests'[i].api \in StartedRepositoryCalls
                    /\ requests'[i].tok = EntryToken
                    /\ requests'[i].tok = session.accessToken
             /\ \A api \in StartedRepositoryCalls :
                    \E i \in 1..Len(requests') : requests'[i].api = api
             /\ session' = session
             /\ persisted' = persisted
             /\ published' = <<>>
       /\ FinishedRepositoryCall' =>
             /\ ~Ok(call'.reply) => /\ call'.result.outcome = "thrown"
                                    /\ completed'.outcome = "rejected"
             /\ call'.result.outcome = "thrown" <=> completed'.outcome = "rejected"
             /\ requests' = <<>>
             /\ BagCardinality(inflight') = BagCardinality(inflight) - 1
             /\ \A c \in BagToSet(inflight') : CopiesIn(c, inflight') <= CopiesIn(c, inflight)
             /\ session' = session
             /\ persisted' = persisted
             /\ published' = <<>>]_vars

C20_Witness ==
    /\ FinishedRepositoryCall
    /\ completed.outcome = "rejected"
    /\ call.reply.status = 401
    /\ completed.tok # Null
    /\ session.accessToken = completed.tok
    /\ session.isAuthenticated

\* ------------------------------------------------------------ two tabs
\* the startup checkAuth of this tab has just resolved
StartupResolved == Finished("checkAuth") /\ tabs.startup = "running"

\* C21: with two tabs on the entry 'echo-auth-storage', the listener of a
\* tab, run for an event of that key, starts a reload and writes neither the
\* entry nor the store; when the reload it started commits, the entry holds
\* the values of the other tab's session, which changed it, and the reloaded
\* session is built from them; when the startup checkAuth then resolves the
\* session is unauthenticated with null tokens if the entry held no token,
\* and authenticated with the entry's tokens if the server accepted them; a
\* storage event for another key starts no reload and changes nothing.
C21_CrossTabReload ==
    /\ [][StorageListener(Name) =>
             /\ UNCHANGED <<session, inflight, persisted>>
             /\ tabs'.reloading]_vars
    /\ [][LocationReload =>
             /\ Parse(persisted) = Partialize(tabs.other.session)
             /\ Partialize(session') = Parse(persisted)
             /\ tabs'.startup = "fresh"]_vars
    /\ [][StorageListener(OtherKey) =>
             /\ UNCHANGED <<session, inflight, persisted>>
             /\ tabs'.startup = tabs.startup
             /\ tabs'.reloading = tabs.reloading]_vars
    /\ [](StartupResolved /\ completed.path = "notoken" =>
             /\ session = Unauthenticated
             /\ Parse(persisted) = Partialize(Unauthenticated))
    /\ [](StartupResolved /\ completed.path = "valid" =>
             /\ session.isAuthenticated /\ ~session.isLoading
             /\ session.accessToken # Null /\ session.refreshToken # Null
             /\ Parse(persisted) = Partialize(session))

\* ------------------------------------------------------- ProtectedRoute
\* C22: a mounted ProtectedRoute shows what it returned for the state it
\* read at its last render: its children only when isLoading was false and
\* isAuthenticated true, the fallback whenever isLoading was true, nothing
\* when both were false; once its effects have run, that state is the
\* store's, and when isLoading and isAuthenticated are both false it has
\* stored its pathname under 'redirectAfterLogin' and pushed /auth/login.
C22_RouteGuard ==
    guard.mounted =>
        /\ guard.rendered = "children" => ~guard.seen.isLoading /\ guard.seen.isAuthenticated
        /\ guard.seen.isLoading => guard.rendered = "fallback"
        /\ Redirects(guard.seen) => guard.rendered = "null"
        /\ guard.effects = "done" =>
               /\ guard.seen = Seen(session)
               /\ Redirects(session) =>
                      /\ guard.redirectAfterLogin = guard.pathname
                      /\ guard.pushed = "/auth/login"

C22_Witness ==
    /\ guard.mounted
    /\ Finished("checkAuth")
    /\ completed.path = "refreshfail"
    /\ guard.rendered = "null"
    /\ guard.pushed = "/auth/login"
    /\ guard.redirectAfterLogin = "/repositories"

\* C23: no two operations of the store are in flight at the same time, with
\* the calls made as the components make them: checkAuth on every mount of
\* ProtectedRoute, logout from the user menu, login from the form whose
\* button is disabled while isLoading.
C23_NoOverlap == BagCardinality(inflight) <= 1

\* ------------------------------------------------- checkAuth's requests
\* how far a suspended checkAuth has come: its awaits in program order
Stage(pc) ==
    CASE pc = "me1" -> 1
      [] pc \in {"refresh", "norefresh"} -> 2
      [] pc \in {"refreshed", "refreshfail"} -> 3
      [] pc = "me2" -> 4

Requested(api) == \E i \in 1..Len(requests) : requests[i].api = api

\* C24: a checkAuth only moves forward through its awaits, so it never
\* loops; it issues the refresh request only once, right after its first
\* fetch of the current user failed, and a fetch only when it is called and
\* once more after its refresh succeeded, then with the access token the
\* refresh stored; every path ends with isLoading = false, and when every
\* network call is answered a pending checkAuth does end.
C24_CheckAuthTerminates ==
    /\ [][\A c \in BagToSet(inflight) : \A d \in BagToSet(inflight') :
             (c.op = "checkAuth" /\ d.op = "checkAuth") =>
             /\ Stage(d.pc) > Stage(c.pc)
             /\ (Requested("refresh")' <=> d.pc = "refresh")
             /\ d.pc = "refresh" => c.pc = "me1" /\ Len(requests') = 1
             /\ (Requested("getMe")' <=> d.pc = "me2")
             /\ d.pc = "me2" =>
                    /\ c.pc = "refreshed"
                    /\ requests' = <<Request("getMe", session.accessToken)>>
                    /\ session.accessToken # Null]_vars
    /\ [][\A d \in BagToSet(inflight') :
             d.op = "checkAuth" /\ d.pc = "refreshed" =>
             /\ response'.kind = "ok"
             /\ session'.accessToken = response'.access_token
             /\ \E c \in BagToSet(inflight) : c.op = "checkAuth" /\ c.pc = "refresh"]_vars
    /\ [](Finished("checkAuth") => ~session.isLoading /\ ~Pending("checkAuth"))
    /\ (Pending("checkAuth") ~> (Finished("checkAuth") \/ Reloaded))

C24_Witness ==
    /\ Finished("checkAuth")
    /\ completed.path = "retryfailed"
    /\ ~session.isLoading
    /\ inflight = EmptyBag

\* ------------------------------------------------ overlapping operations
\* C25: in every reachable state, overlapping operations included, an
\* authenticated session holds an access token and a refresh token.
C25_AuthenticatedHoldsTokens ==
    session.isAuthenticated => session.accessToken # Null /\ session.refreshToken # Null

\* the session holds nothing and the stored entry holds no token
SignedOut(s, text) ==
    /\ s.user = Null /\ s.accessToken = Null /\ s.refreshToken = Null
    /\ ~s.isAuthenticated
    /\ Parse(text).accessToken = Null /\ Parse(text).refreshToken = Null

\* the step resumes a suspended operation op
Resumed(op) ==
    \E c \in BagToSet(inflight) :
        c.op = op /\ CopiesIn(c, inflight') < CopiesIn(c, inflight)

\* C26: when logout() has resolved, the session is cleared and the entry
\* holds no token, and a response that then arrives for a checkAuth or a
\* refreshTokens started earlier leaves them so.
C26_LogoutIsFinal ==
    /\ [](Finished("logout") => SignedOut(session, persisted))
    /\ [][(Finished("logout") /\ (Resumed("checkAuth") \/ Resumed("refreshTokens")))
             => SignedOut(session', persisted')]_vars

\* C27: checkAuth calls that overlap on a session whose access token has
\* expired, with a backend that exchanges the refresh token once: when all of
\* them have returned and the refresh token was exchanged, the session is
\* authenticated and holds an access token and a refresh token, as a single
\* checkAuth leaves it.
C27_ConcurrentCheckAuth ==
    (Idle /\ backend.used # {}) =>
        /\ session.isAuthenticated
        /\ session.accessToken # Null
        /\ session.refreshToken # Null

\* -------------------------------------------------- isLoading at rest
\* the operations that set isLoading
LoadingOperations == {"login", "signup", "logout", "checkAuth", "handleOAuthCallback"}

\* none of them is suspended
AtRest(suspended) == \A c \in BagToSet(suspended) : c.op \notin LoadingOperations

\* C28: with none of login, signup, logout, checkAuth, handleOAuthCallback in
\* flight and one of them completed since the application started, isLoading
\* is false: a segment that completes one of them and leaves none in flight
\* leaves isLoading false, and from then on isLoading stays false as long as
\* none is in flight and the page is not loaded again.
C28_NotLoadingAtRest ==
    [][AtRest(inflight') =>
         /\ completed'.op \in LoadingOperations => ~session'.isLoading
         /\ (AtRest(inflight) /\ ~session.isLoading /\ ~Reloaded') => ~session'.isLoading]_vars

C28_Witness ==
    /\ Finished("refreshTokens")
    /\ response.kind = "error"
    /\ Idle
    /\ ~session.isLoading
    /\ "isAuthenticated" \in changed

\* ------------------------------------------------ identity and tokens
\* C29: whenever the session holds a user and an access token, the user is
\* the account the access token belongs to; stated for the states in which
\* no operation is in flight, so after an operation has ended either way.
C29_UserMatchesToken ==
    (Idle /\ session.user # Null /\ session.accessToken # Null) =>
        session.user = Owner(session.accessToken)

\* ------------------------------------------------ the entry and the session
\* C30 as stated: every segment that updates the session leaves the entry
\* with the session's accessToken, refreshToken and user, and the token
\* fetchWithAuth would read from the entry is always the session's
\* accessToken.
C30_EntryAlwaysMirrorsSession ==
    /\ [][published' # <<>> => persisted' = Stringify(Partialize(session'))]_vars
    /\ [](StoredToken(persisted) = session.accessToken)

\* C30: every segment that updates the session leaves the entry with the
\* session's accessToken, refreshToken and user; as long as no storage event
\* for the entry is pending in the tab and no reload of it is under way (no
\* other tab has written the entry since the page was loaded), the entry,
\* once written, holds the session's three values and the token fetchWithAuth
\* would read is the session's accessToken, null when the session holds none.
C30_EntryMirrorsSession ==
    /\ [][published' # <<>> => persisted' = Stringify(Partialize(session'))]_vars
    /\ [](Name \notin tabs.events /\ ~tabs.reloading =>
             /\ StoredToken(persisted) = session.accessToken
             /\ persisted # NoEntry => Parse(persisted) = Partialize(session))

C30_Witness ==
    /\ Finished("logout")
    /\ Name \notin tabs.events
    /\ ~tabs.reloading
    /\ StoredToken(persisted) = Null
    /\ Name \in tabs.other.events
    /\ tabs.other.session.accessToken # Null
====
